---- MODULE Spec2Model ----
(***************************************************************************)
(* The bot-connector worker of personal_genchatbotconnector/src/index.js:  *)
(* one `fetch(request, env)` handler that authenticates the caller, mints  *)
(* a bearer token (createJWT, getAccessToken), calls Dialogflow's          *)
(* detectIntent and applies the fallback-counter post-processing.          *)
(*                                                                         *)
(* One invocation runs at a time; the handler is cut at its `await`s       *)
(* (request.json, createJWT, getAccessToken, fetch) and the outcome of     *)
(* each awaited call is chosen by the environment.  Between invocations    *)
(* the caller either sends a fresh request or feeds the last 200           *)
(* response's botContexts back unmodified (round trip).  A second          *)
(* specification, SpecConcurrent, interleaves the steps of several calls   *)
(* of the handler that the host runs in parallel.                          *)
(***************************************************************************)
EXTENDS Integers, Sequences, FiniteSets, TLC

VARIABLES
    env,            \* the worker's configuration and host: fixed for a run
    pc,             \* where the current invocation stands
    req,            \* the current request
    steps,          \* the outbound operations this invocation has started, in order
    fallbackCount,  \* the handler's local `fallbackCount` as read at lines 143-149
    result,         \* dialogflowResponse.queryResult of this invocation
    replies,        \* what the token endpoint and Dialogflow answered, if asked
    resp,           \* the Response this invocation returned
    chain,          \* the round-tripped turns that precede this invocation
    dialogflowRequest,  \* the body of the detectIntent request, once sent
    inv             \* the invocations the host runs in parallel, one record each

vars == <<env, pc, req, steps, fallbackCount, result, replies, resp, chain,
          dialogflowRequest, inv>>

-----------------------------------------------------------------------------
(* Bounds *)

\* Longest run of turns whose contexts are fed back unmodified.
MaxTurns == 4

\* Invocations the host runs in parallel.
MaxInvocations == 2

-----------------------------------------------------------------------------
(* JavaScript values of `parameters.fallback_count` *)

Absent == [kind |-> "absent", n |-> 0]     \* no parameters, or no such key
Num(k) == [kind |-> "num", n |-> k]        \* a number
Str(k) == [kind |-> "str", n |-> k]        \* the decimal string of k
Junk == [kind |-> "junk", n |-> 0]         \* a string that is no number
NaN == [kind |-> "nan", n |-> 0]           \* NaN, inside the handler only
Null == [kind |-> "null", n |-> 0]         \* JSON null

\* JavaScript truthiness: 0, NaN, null and undefined are falsy; every
\* non-empty string is truthy.
Truthy(v) ==
    \/ v.kind = "num" /\ v.n # 0
    \/ v.kind \in {"str", "junk"}

\* The threshold test with `>` in place of `>=`.
AtThreshold_OffByOne(v) ==
    /\ v.kind \in {"num", "str"}
    /\ v.n > 2

\* `fallbackCount >= 2` with ToNumber applied to a string operand; a
\* comparison with NaN is false.
AtThreshold(v) ==
    /\ v.kind \in {"num", "str"}
    /\ v.n >= 2

\* `fallbackCount++`: ToNumber, then add one; NaN stays NaN.
Increment(v) ==
    IF v.kind \in {"num", "str"} THEN Num(v.n + 1) ELSE NaN

\* JSON.stringify writes NaN as null.
Stringify(v) ==
    IF v.kind = "nan" THEN Null ELSE v

-----------------------------------------------------------------------------
(* Contexts *)

Sessions == {"s1", "s2"}
FallbackLabel == "fallback_counter"
OtherLabel == "order_followup"

\* `projects/${projectId}/agent/sessions/${sessionId}/contexts/<label>`
ContextName(sessionId, label) == [session |-> sessionId, label |-> label]

Context(name, lifespanCount, count) ==
    [name |-> name, lifespanCount |-> lifespanCount, fallback_count |-> count]

fallbackContextName(sessionId) == ContextName(sessionId, FallbackLabel)

\* The contexts a caller may send.
InboundContexts ==
    {Context(ContextName(s, FallbackLabel), 1, c) :
        s \in Sessions, c \in {Absent, Num(1), Num(2), Num(3), Str(2), Junk}}
    \cup {Context(ContextName("s1", FallbackLabel), 0, Num(2)),
          Context(ContextName("s1", FallbackLabel), 1, Num(0)),
          Context(ContextName("s1", OtherLabel), 2, Absent),
          Context(ContextName("s1", OtherLabel), 0, Absent)}

\* The contexts Dialogflow may return in queryResult.outputContexts.
BackendContexts ==
    {Context(ContextName("s1", OtherLabel), 2, Absent),
     Context(ContextName("s1", FallbackLabel), 1, Num(2)),
     Context(ContextName("s2", FallbackLabel), 1, Num(1)),
     Context(ContextName("s1", FallbackLabel), 0, Num(1))}

BackendOutputs == {<<>>} \cup {<<c>> : c \in BackendContexts}

\* Array.prototype.find returns the first match: the least of the matching
\* positions, 0 when there is none.
First(positions) ==
    IF positions = {} THEN 0
    ELSE CHOOSE i \in positions : \A j \in positions : i <= j

-----------------------------------------------------------------------------
(* Requests, configuration, and the replies of the two remote services *)

NoText == "<absent>"
Undefined == "<undefined>"

\* A request of the bot connector.  `body` says whether the body is JSON and
\* whether it has an inputMessage object; `text` is inputMessage.text.  The
\* body built here has a botContexts array, no languageCode and no
\* initiation event; `hasBotContexts`, `languageCode` and `event` say
\* otherwise (botContexts is <<>> where the key is absent).
Request(method, authorized, body, text, sessionId, botContexts) ==
    [method |-> method, authorized |-> authorized, body |-> body, text |-> text,
     sessionId |-> sessionId, botContexts |-> botContexts,
     hasBotContexts |-> TRUE, languageCode |-> NoText, event |-> FALSE]

NoRequest == Request("none", FALSE, "notjson", NoText, "s1", <<>>)

InboundLists == {<<>>} \cup {<<c>> : c \in InboundContexts}

Requests ==
    {Request("POST", TRUE, "json", "hello", s, l) :
        s \in Sessions, l \in InboundLists}
    \cup {Request(m, a, "json", t, "s1", <<>>) :
            m \in {"POST", "GET"}, a \in BOOLEAN, t \in {"hello", "", NoText}}
    \cup {Request(m, a, b, NoText, "s1", <<>>) :
            m \in {"POST", "GET"}, a \in BOOLEAN, b \in {"notjson", "noinput"}}
    \cup {[Request("POST", TRUE, "json", t, "s1", <<>>) EXCEPT !.event = TRUE] :
            t \in {"", NoText}}
    \cup {[Request("POST", TRUE, "json", "hello", "s1", l)
                EXCEPT !.languageCode = "fr-FR"] :
            l \in {<<>>, <<Context(ContextName("s1", FallbackLabel), 1, Num(1))>>}}
    \cup {[Request("POST", TRUE, "json", "hello", "s1", <<>>)
                EXCEPT !.hasBotContexts = FALSE, !.languageCode = c] :
            c \in {NoText, "fr-FR"}}

\* env.DIALOGFLOW_CREDENTIALS: unset, not JSON, JSON without private_key,
\* JSON whose private_key is no PKCS#8 PEM, or a usable bundle.
Credentials == {"missing", "malformed", "nokey", "badkey", "ok"}

TokenReplies == {"network", "notjson", "error", "ok"}

FallbackIntent == "Default Fallback Intent"

\* result.intent: absent, an object without displayName, or a named intent.
Intents == {"<none>", Undefined, FallbackIntent, "Greeting"}

\* `hasOutputContexts` is FALSE for a result without the outputContexts
\* key (outputContexts is <<>> there).
QueryResult(text, intent, confidence, contexts) ==
    [fulfillmentText |-> text, intent |-> intent,
     intentDetectionConfidence |-> confidence, outputContexts |-> contexts,
     hasOutputContexts |-> TRUE]

NoResult == QueryResult(NoText, "<none>", NoText, <<>>)

QueryResults ==
    {QueryResult(t, i, c, o) :
        t \in {NoText, "Hi, how can I help?"}, i \in Intents,
        c \in {NoText, "0.9"}, o \in BackendOutputs}
    \cup {[QueryResult(t, i, c, <<>>) EXCEPT !.hasOutputContexts = FALSE] :
            t \in {NoText, "Hi, how can I help?"}, i \in Intents,
            c \in {NoText, "0.9"}}

BackendFailures == {"network", "non2xx", "notjson", "noresult"}

-----------------------------------------------------------------------------
(* Responses *)

ResultKeys == {"replymessages", "intent", "confidence", "botContexts", "botState"}

\* new Response(text, { status }): no JSON body.
ErrorResponse(status) ==
    [status |-> status, keys |-> {}, replymessages |-> Undefined,
     intent |-> Undefined, confidence |-> Undefined, botContexts |-> <<>>,
     botState |-> Undefined]

NoResponse == ErrorResponse(0)

\* new Response(JSON.stringify(finalResponse), { status: 200 }).  JSON.stringify
\* leaves out a key whose value is undefined and writes NaN as null.
JsonResponse(finalReply, intent, confidence, outputContexts, botState) ==
    [status |-> 200,
     keys |-> {"replymessages", "confidence", "botContexts", "botState"}
                \cup (IF intent = Undefined THEN {} ELSE {"intent"}),
     replymessages |-> finalReply,
     intent |-> intent,
     confidence |-> confidence,
     botContexts |-> [i \in 1..Len(outputContexts) |->
                        [outputContexts[i] EXCEPT
                            !.fallback_count = Stringify(@)]],
     botState |-> botState]

-----------------------------------------------------------------------------
(* The handler's computations *)

DefaultReply == "No response from Dialogflow."
RephraseReply ==
    "I'm sorry, I'm having trouble understanding. Could you please try rephrasing?"
TerminalReply ==
    "I'm sorry, I am unable to help with that. Please contact a human agent for assistance. Goodbye!"

\* Line 98: `requestBody.languageCode || 'en-US'`.
DefaultLanguageCode == "en-US"

languageCode(r) ==
    IF r.languageCode = NoText THEN DefaultLanguageCode ELSE r.languageCode

\* Line 100: `requestBody.botContexts || []`.
inboundContexts(r) ==
    IF r.hasBotContexts THEN r.botContexts ELSE <<>>

\* The detectIntent body with the fallback-counter contexts left out.
DetectIntentRequest_WithoutCounter(r) ==
    [text |-> r.text, languageCode |-> languageCode(r),
     contexts |-> SelectSeq(inboundContexts(r),
                            LAMBDA c : c.name.label # FallbackLabel)]

\* Lines 159-170: the body of the detectIntent request.
DetectIntentRequest(r) ==
    [text |-> r.text, languageCode |-> languageCode(r),
     contexts |-> inboundContexts(r)]

NoDialogflowRequest == [text |-> NoText, languageCode |-> NoText, contexts |-> <<>>]

\* The lookup by the trailing label of the name alone.
existingFallbackContext_ByLabel(botContexts, sessionId) ==
    First({i \in 1..Len(botContexts) :
            botContexts[i].name.label = FallbackLabel})

\* Lines 143-149: the count of the first inbound context whose name equals
\* fallbackContextName, when that count is truthy; 0 otherwise.
existingFallbackContext(botContexts, sessionId) ==
    First({i \in 1..Len(botContexts) :
            botContexts[i].name = fallbackContextName(sessionId)})

ReadFallbackCount(botContexts, sessionId) ==
    LET i == existingFallbackContext(botContexts, sessionId)
    IN  IF i # 0 /\ Truthy(botContexts[i].fallback_count)
        THEN botContexts[i].fallback_count
        ELSE Num(0)

\* The first inbound context, whatever its lifespanCount.
previousContext_AnyLifespan(botContexts) ==
    First({i \in 1..Len(botContexts) : botContexts[i].lifespanCount >= 0})

\* Line 212: the first inbound context with lifespanCount > 0.
previousContext(botContexts) ==
    First({i \in 1..Len(botContexts) : botContexts[i].lifespanCount > 0})

\* Lines 200-202.
dialogflowReply(r) ==
    IF r.fulfillmentText = NoText THEN DefaultReply ELSE r.fulfillmentText

\* The intent name read without the test of `result.intent`.
dialogflowIntent_NoDefault(r) == r.intent

dialogflowIntent(r) ==
    IF r.intent = "<none>" THEN "UNKNOWN" ELSE r.intent

dialogflowConfidence(r) ==
    IF r.intentDetectionConfidence = NoText THEN "0"
    ELSE r.intentDetectionConfidence

\* Line 203: `result.outputContexts || []`.
resultContexts(r) ==
    IF r.hasOutputContexts THEN r.outputContexts ELSE <<>>

\* Line 214.
endConversation(r, count) ==
    /\ dialogflowIntent(r) = FallbackIntent
    /\ AtThreshold(count)

\* Lines 207-219.
finalReply(r, count) ==
    IF dialogflowIntent(r) # FallbackIntent THEN dialogflowReply(r)
    ELSE IF AtThreshold(count) THEN TerminalReply
    ELSE RephraseReply

\* Lines 221-228: the re-applied previous context, when there is one.
ReappliedContext(botContexts) ==
    LET p == previousContext(botContexts)
    IN  IF p = 0 THEN <<>>
        ELSE <<[botContexts[p] EXCEPT !.lifespanCount = 1]>>

\* Lines 230-237: the counter context pushed on a non-terminal fallback.
CounterContext(sessionId, count) ==
    <<Context(fallbackContextName(sessionId), 1, Increment(count))>>

\* The counter context pushed on every fallback turn, the terminal one too.
outputContexts_PushOnEveryFallback(r, botContexts, sessionId, count) ==
    IF r.intent = FallbackIntent
    THEN resultContexts(r) \o ReappliedContext(botContexts)
            \o CounterContext(sessionId, count)
    ELSE resultContexts(r)

\* Lines 203-242: the list the handler returns as botContexts.
outputContexts(r, botContexts, sessionId, count) ==
    IF dialogflowIntent(r) = FallbackIntent /\ ~AtThreshold(count)
    THEN resultContexts(r) \o ReappliedContext(botContexts)
            \o CounterContext(sessionId, count)
    ELSE resultContexts(r)

\* Lines 246-268.
finalResponse(r, botContexts, sessionId, count) ==
    JsonResponse(finalReply(r, count), dialogflowIntent(r),
                 dialogflowConfidence(r),
                 outputContexts(r, botContexts, sessionId, count),
                 IF endConversation(r, count) THEN "COMPLETE" ELSE "MOREDATA")

-----------------------------------------------------------------------------
(* The state machine *)

\* The chain of round-tripped turns before the current one: how many there
\* are, how many fallback turns in a row end it, how many fallback turns in a
\* row precede its last turn when that turn matched another intent, and
\* whether its first request carried no contexts.
NewChain(botContexts) ==
    [len |-> 0, fallbacks |-> 0, reset |-> 0, emptyStart |-> botContexts = <<>>]

ExtendChain(c, wasFallback) ==
    [c EXCEPT !.len = @ + 1,
              !.fallbacks = IF wasFallback THEN @ + 1 ELSE 0,
              !.reset = IF wasFallback THEN 0 ELSE c.fallbacks]

\* The username/password check made before the method check.
GateStatus_PasswordFirst(r) ==
    IF ~r.authorized THEN 401
    ELSE IF r.method # "POST" THEN 405
    ELSE 0

\* Lines 71-89: the method check, then the username/password check.  The
\* status of the early return, 0 when the request passes.
GateStatus(r) ==
    IF r.method # "POST" THEN 405
    ELSE IF ~r.authorized THEN 401
    ELSE 0

\* An empty or missing utterance let through when the body carries an
\* initiation event.
ValidateStatus_EventTolerated(r) ==
    IF r.body # "json" THEN 500
    ELSE IF r.text \in {NoText, ""} /\ ~r.event THEN 400
    ELSE 0

\* Lines 93-108: request.json() rejects on a body that is no JSON, and
\* reading inputMessage.text throws when inputMessage is undefined: the
\* catch block answers 500.  A falsy text is answered 400; no other field
\* of inputMessage is read.
ValidateStatus(r) ==
    IF r.body # "json" THEN 500
    ELSE IF r.text \in {NoText, ""} THEN 400
    ELSE 0

\* JSON.parse of the bundle taken to succeed on any text.
CredentialStatus_ParseUnchecked(e) ==
    IF e.credentials \in {"missing", "nokey"} THEN 500 ELSE 0

\* Lines 113-127: an unset bundle throws, an unparsable one is answered 500
\* at once, and a bundle without private_key throws at line 126.
CredentialStatus(e) ==
    IF e.credentials \in {"missing", "malformed", "nokey"} THEN 500 ELSE 0

\* createJWT, lines 5-31.  importPKCS8 rejects a key that is no PKCS#8 PEM.
\* Line 27 builds the signature text with `new Uint8array(signature)`: the
\* global is spelled Uint8Array, so the call returns only on a host whose
\* global scope defines `Uint8array` and throws a ReferenceError elsewhere.
createJWT(e) ==
    IF e.credentials = "badkey" THEN "rejects"
    ELSE IF ~e.hostDefinesUint8array THEN "rejects"
    ELSE "jwt"

\* getAccessToken without the test of `data.error`.
getAccessToken_IgnoresError(reply) ==
    IF reply \in {"ok", "error"} THEN "access_token" ELSE "throws"

\* getAccessToken, lines 53-66: fetch rejects on a network failure,
\* response.json() on a body that is no JSON, and an `error` field throws.
getAccessToken(reply) ==
    IF reply = "ok" THEN "access_token" ELSE "throws"

\* Lines 175-194: fetch rejects on a network failure, a status outside 2xx
\* throws, response.json() rejects on a body that is no JSON, and reading a
\* field of an undefined queryResult throws.
detectIntent(reply) ==
    IF reply = "ok" THEN "queryResult" ELSE "throws"

NoReplies == [token |-> "none", backend |-> "none"]

\* The whole handler, lines 69-275, as a function of the request, the
\* configuration and the replies the invocation receives.
Handler(e, r, tokenReply, backendReply, queryResult) ==
    IF GateStatus(r) # 0 THEN ErrorResponse(GateStatus(r))
    ELSE IF ValidateStatus(r) # 0 THEN ErrorResponse(ValidateStatus(r))
    ELSE IF CredentialStatus(e) # 0 THEN ErrorResponse(CredentialStatus(e))
    ELSE IF createJWT(e) = "rejects" THEN ErrorResponse(500)
    ELSE IF getAccessToken(tokenReply) = "throws" THEN ErrorResponse(500)
    ELSE IF detectIntent(backendReply) = "throws" THEN ErrorResponse(500)
    ELSE finalResponse(queryResult, inboundContexts(r), r.sessionId,
                       ReadFallbackCount(inboundContexts(r), r.sessionId))

-----------------------------------------------------------------------------
(* Invocations in parallel *)

Invocations == 1..MaxInvocations

\* An access token: the invocation whose token exchange returned it and the
\* invocation that signed the assertion it was exchanged for.
AccessToken(exchange, assertion) ==
    [exchange |-> exchange, assertion |-> assertion]

NoToken == AccessToken(0, 0)

\* One call of fetch: its position, its request, the replies it received,
\* its response, and its locals `jwt` (the invocation that signed it, 0
\* before), `accessToken` and `fallbackCount`; `bearer` is the token its
\* detectIntent request carried, and `overtaken` says that another
\* invocation read its counter while this one awaited Dialogflow.
NoInvocation ==
    [pc |-> "idle", req |-> NoRequest, steps |-> <<>>, replies |-> NoReplies,
     result |-> NoResult, resp |-> NoResponse, jwt |-> 0,
     accessToken |-> NoToken, bearer |-> NoToken, fallbackCount |-> Num(0),
     overtaken |-> FALSE]

\* The requests, token replies, backend replies and results of the
\* parallel invocations.
ParallelRequests ==
    {Request("POST", TRUE, "json", "hello", "s1", l) :
        l \in {<<>>,
               <<Context(ContextName("s1", FallbackLabel), 1, Num(1))>>,
               <<Context(ContextName("s1", FallbackLabel), 1, Num(2))>>}}
    \cup {Request("POST", TRUE, "json", "hello", "s2",
                  <<Context(ContextName("s2", FallbackLabel), 1, Num(2))>>),
          Request("GET", TRUE, "json", "hello", "s1", <<>>)}

ParallelResults ==
    {QueryResult("Hi, how can I help?", i, "0.9", <<>>) :
        i \in {FallbackIntent, "Greeting"}}

\* `fallbackCount` declared once for the module: every invocation reads and
\* writes the same variable.
fallbackCountOwner_ModuleLevel(i) == 1

\* Line 143: `let fallbackCount` is declared inside fetch, so every call has
\* its own.  The invocation whose variable invocation i reads and writes.
fallbackCountOwner(i) == i

\* The token of the earliest invocation that holds one.
AuthorizationToken_Shared(i, calls) ==
    calls[First({j \in Invocations : calls[j].accessToken # NoToken})].accessToken

\* Line 178: `Bearer ${accessToken}`, the const of line 138 of the same call.
AuthorizationToken(i, calls) == calls[i].accessToken

\* The state of the one-at-a-time handler, which the parallel invocations
\* leave alone.
sequentialVars ==
    <<env, pc, req, steps, fallbackCount, result, replies, resp, chain,
      dialogflowRequest>>

ReturnOf(i, r) ==
    inv' = [inv EXCEPT ![i].resp = r, ![i].pc = "done"]

ParallelReceive(i) ==
    /\ inv[i].pc = "idle"
    /\ \E r \in ParallelRequests :
        inv' = [inv EXCEPT ![i].req = r, ![i].pc = "gate"]
    /\ UNCHANGED sequentialVars

\* Lines 71-89.
ParallelGate(i) ==
    /\ inv[i].pc = "gate"
    /\ IF GateStatus(inv[i].req) # 0
       THEN ReturnOf(i, ErrorResponse(GateStatus(inv[i].req)))
       ELSE inv' = [inv EXCEPT ![i].pc = "parse"]
    /\ UNCHANGED sequentialVars

\* Lines 93-137.
ParallelParse(i) ==
    /\ inv[i].pc = "parse"
    /\ IF ValidateStatus(inv[i].req) # 0
       THEN ReturnOf(i, ErrorResponse(ValidateStatus(inv[i].req)))
       ELSE IF CredentialStatus(env) # 0
       THEN ReturnOf(i, ErrorResponse(CredentialStatus(env)))
       ELSE inv' = [inv EXCEPT ![i].pc = "sign",
                               ![i].steps = Append(@, "sign")]
    /\ UNCHANGED sequentialVars

\* Lines 137-138: createJWT settles into the call's `jwt`, which
\* getAccessToken posts.
ParallelSign(i) ==
    /\ inv[i].pc = "sign"
    /\ IF createJWT(env) = "rejects"
       THEN ReturnOf(i, ErrorResponse(500))
       ELSE inv' = [inv EXCEPT ![i].pc = "token",
                               ![i].steps = Append(@, "token"),
                               ![i].jwt = i]
    /\ UNCHANGED sequentialVars

\* Lines 138-182: the token endpoint answers the assertion it was sent; the
\* counter is read and the detectIntent request is sent with the token.
ParallelToken(i) ==
    /\ inv[i].pc = "token"
    /\ \E reply \in {"error", "ok"} :
        IF getAccessToken(reply) = "throws"
        THEN inv' = [inv EXCEPT ![i].replies.token = reply,
                                ![i].resp = ErrorResponse(500),
                                ![i].pc = "done"]
        ELSE LET minted == [inv EXCEPT
                    ![i].accessToken = AccessToken(i, inv[i].jwt)]
                 sent == [minted EXCEPT
                    ![i].replies.token = reply,
                    ![i].pc = "detect",
                    ![i].steps = Append(@, "backend"),
                    ![i].bearer = AuthorizationToken(i, minted),
                    ![fallbackCountOwner(i)].fallbackCount =
                        ReadFallbackCount(inboundContexts(inv[i].req),
                                          inv[i].req.sessionId)]
             IN inv' = [j \in Invocations |->
                            IF j # i /\ inv[j].pc = "detect"
                            THEN [sent[j] EXCEPT !.overtaken = TRUE]
                            ELSE sent[j]]
    /\ UNCHANGED sequentialVars

\* Lines 175-268.
ParallelDetect(i) ==
    /\ inv[i].pc = "detect"
    /\ \E reply \in {"non2xx", "ok"} :
        IF detectIntent(reply) = "throws"
        THEN inv' = [inv EXCEPT ![i].replies.backend = reply,
                                ![i].resp = ErrorResponse(500),
                                ![i].pc = "done"]
        ELSE \E r \in ParallelResults :
                inv' = [inv EXCEPT
                    ![i].replies.backend = reply,
                    ![i].result = r,
                    ![i].pc = "done",
                    ![i].resp =
                        finalResponse(r, inboundContexts(inv[i].req),
                            inv[i].req.sessionId,
                            inv[fallbackCountOwner(i)].fallbackCount)]
    /\ UNCHANGED sequentialVars

\* The host runs one step of one invocation.
NextConcurrent ==
    \/ \E i \in Invocations : ParallelReceive(i)
    \/ \E i \in Invocations : ParallelGate(i)
    \/ \E i \in Invocations : ParallelParse(i)
    \/ \E i \in Invocations : ParallelSign(i)
    \/ \E i \in Invocations : ParallelToken(i)
    \/ \E i \in Invocations : ParallelDetect(i)

\* No invocation has been made yet.
Idle ==
    /\ env \in [credentials : Credentials, hostDefinesUint8array : BOOLEAN]
    /\ pc = "idle"
    /\ req = NoRequest
    /\ steps = <<>>
    /\ fallbackCount = Num(0)
    /\ result = NoResult
    /\ replies = NoReplies
    /\ resp = NoResponse
    /\ chain = NewChain(<<>>)
    /\ dialogflowRequest = NoDialogflowRequest

\* One invocation at a time: no parallel invocations.
Init ==
    /\ Idle
    /\ inv = <<>>

InitConcurrent ==
    /\ Idle
    /\ inv = [i \in Invocations |-> NoInvocation]

Begin(r) ==
    /\ req' = r
    /\ pc' = "gate"
    /\ steps' = <<>>
    /\ fallbackCount' = Num(0)
    /\ result' = NoResult
    /\ replies' = NoReplies
    /\ resp' = NoResponse
    /\ dialogflowRequest' = NoDialogflowRequest
    /\ UNCHANGED <<env, inv>>

\* The caller sends a request that continues no earlier turn.
Receive ==
    /\ pc \in {"idle", "done"}
    /\ \E r \in Requests :
        /\ Begin(r)
        /\ chain' = NewChain(r.botContexts)

\* The caller sends the next turn of the session with the botContexts of the
\* last response, unmodified.
RoundTrip ==
    /\ pc = "done"
    /\ resp.status = 200
    /\ chain.len + 1 < MaxTurns
    /\ Begin([req EXCEPT !.botContexts = resp.botContexts,
                          !.hasBotContexts = TRUE])
    /\ chain' = ExtendChain(chain, resp.intent = FallbackIntent)

Return(r) ==
    /\ resp' = r
    /\ pc' = "done"

\* Lines 71-89, up to the call of request.json().
Gate ==
    /\ pc = "gate"
    /\ IF GateStatus(req) # 0
       THEN Return(ErrorResponse(GateStatus(req)))
       ELSE pc' = "parse" /\ UNCHANGED resp
    /\ UNCHANGED <<env, req, steps, fallbackCount, result, replies, chain,
                   dialogflowRequest, inv>>

\* The credentials loaded before the utterance is checked.
Parse_CredentialsFirst ==
    /\ pc = "parse"
    /\ IF req.body # "json"
       THEN Return(ErrorResponse(500)) /\ UNCHANGED steps
       ELSE IF CredentialStatus(env) # 0
       THEN Return(ErrorResponse(CredentialStatus(env))) /\ UNCHANGED steps
       ELSE IF ValidateStatus(req) # 0
       THEN Return(ErrorResponse(ValidateStatus(req))) /\ UNCHANGED steps
       ELSE /\ pc' = "sign"
            /\ steps' = Append(steps, "sign")
            /\ UNCHANGED resp
    /\ UNCHANGED <<env, req, fallbackCount, result, replies, chain,
                   dialogflowRequest, inv>>

\* Lines 93-137: request.json() settles; the utterance check; the
\* credentials are loaded and createJWT is called.
Parse ==
    /\ pc = "parse"
    /\ IF ValidateStatus(req) # 0
       THEN Return(ErrorResponse(ValidateStatus(req))) /\ UNCHANGED steps
       ELSE IF CredentialStatus(env) # 0
       THEN Return(ErrorResponse(CredentialStatus(env))) /\ UNCHANGED steps
       ELSE /\ pc' = "sign"
            /\ steps' = Append(steps, "sign")
            /\ UNCHANGED resp
    /\ UNCHANGED <<env, req, fallbackCount, result, replies, chain,
                   dialogflowRequest, inv>>

\* Lines 137-138: createJWT settles; getAccessToken posts the assertion.
Sign ==
    /\ pc = "sign"
    /\ IF createJWT(env) = "rejects"
       THEN Return(ErrorResponse(500)) /\ UNCHANGED steps
       ELSE /\ pc' = "token"
            /\ steps' = Append(steps, "token")
            /\ UNCHANGED resp
    /\ UNCHANGED <<env, req, fallbackCount, result, replies, chain,
                   dialogflowRequest, inv>>

\* Lines 138-182: the token endpoint answers; the counter is read and the
\* detectIntent request is sent.
Token ==
    /\ pc = "token"
    /\ \E reply \in TokenReplies :
        /\ replies' = [replies EXCEPT !.token = reply]
        /\ IF getAccessToken(reply) = "throws"
           THEN /\ Return(ErrorResponse(500))
                /\ UNCHANGED <<steps, fallbackCount, dialogflowRequest>>
           ELSE /\ pc' = "detect"
                /\ steps' = Append(steps, "backend")
                /\ fallbackCount' =
                        ReadFallbackCount(inboundContexts(req), req.sessionId)
                /\ dialogflowRequest' = DetectIntentRequest(req)
                /\ UNCHANGED resp
    /\ UNCHANGED <<env, req, result, chain, inv>>

\* Lines 175-268: Dialogflow answers; the post-processing and the response.
Detect ==
    /\ pc = "detect"
    /\ \E reply \in BackendFailures \cup {"ok"} :
        /\ replies' = [replies EXCEPT !.backend = reply]
        /\ IF detectIntent(reply) = "throws"
           THEN Return(ErrorResponse(500)) /\ UNCHANGED result
           ELSE \E r \in QueryResults :
                    /\ result' = r
                    /\ Return(finalResponse(r, inboundContexts(req),
                                            req.sessionId, fallbackCount))
    /\ UNCHANGED <<env, req, steps, fallbackCount, chain, dialogflowRequest,
                   inv>>

Next ==
    \/ Receive
    \/ RoundTrip
    \/ Gate
    \/ Parse
    \/ Sign
    \/ Token
    \/ Detect

Spec == Init /\ [][Next]_vars

SpecConcurrent == InitConcurrent /\ [][NextConcurrent]_vars

-----------------------------------------------------------------------------
(* Vocabulary of the properties *)

\* The invocation answered 200 with a result.
Succeeded == pc = "done" /\ resp.status = 200

\* The positions of the contexts of a list whose name ends in the
\* fallback-counter label.
CounterPositions(contexts) ==
    {i \in 1..Len(contexts) : contexts[i].name.label = FallbackLabel}

\* Some fallback-counter context of the list carries the count k, as a
\* number or as its decimal string, with the given lifespan.
CarriesCount(contexts, k, lifespan) ==
    \E i \in CounterPositions(contexts) :
        /\ contexts[i].fallback_count \in {Num(k), Str(k)}
        /\ contexts[i].lifespanCount = lifespan

\* The backend reported the fallback intent on this turn.
FallbackTurn == result.intent = FallbackIntent

\* The count the handler read from the inbound contexts is a number (0 when
\* there was none) below, or at least, 2.
CountBelowTwo == fallbackCount.kind \in {"num", "str"} /\ fallbackCount.n < 2
CountTwoOrMore == fallbackCount.kind \in {"num", "str"} /\ fallbackCount.n >= 2

\* Every turn before this one was fed the previous turn's contexts,
\* the first had none, and all matched the fallback intent.
FallbackChain == chain.emptyStart /\ chain.fallbacks = chain.len

-----------------------------------------------------------------------------
(* C1 *)

\* C1: in a chain of fallback turns that starts with no inbound contexts and
\* feeds each turn's botContexts back unmodified, the outbound counter is 1
\* after the first turn and 2 after the second, and the third turn answers
\* botState COMPLETE with the terminal reply.
C1_MonotonicEscalation ==
    (Succeeded /\ FallbackTurn /\ FallbackChain) =>
        /\ chain.len = 0 => CarriesCount(resp.botContexts, 1, 1)
        /\ chain.len = 1 => CarriesCount(resp.botContexts, 2, 1)
        /\ chain.len = 2 =>
            resp.botState = "COMPLETE" /\ resp.replymessages = TerminalReply

(* C2 *)

\* C2: the botContexts of a 200 response hold at most one context whose name
\* ends in the fallback-counter label.
C2_AtMostOneCounter ==
    Succeeded => Cardinality(CounterPositions(resp.botContexts)) <= 1

(* C3 *)

\* C3: after N >= 1 fallback turns and then one turn that matched another
\* intent, all round-tripped, the next turn reads the count 0, and if it is a
\* fallback turn it writes the count 1 and answers MOREDATA.
C3_ResetLaw ==
    chain.reset >= 1 =>
        /\ pc = "detect" => fallbackCount = Num(0)
        /\ (Succeeded /\ FallbackTurn) =>
            /\ CarriesCount(resp.botContexts, 1, 1)
            /\ resp.botState = "MOREDATA"

(* C4 *)

\* C4: on a 200 response, a turn that did not match the fallback intent
\* answers the backend's fulfillment text and MOREDATA; a fallback turn
\* whose inbound count is below 2 answers the rephrase text and MOREDATA; a
\* fallback turn whose inbound count is 2 or more answers the terminal text
\* and COMPLETE; botState is COMPLETE in no other case.
C4_ReplyAndState ==
    Succeeded =>
        /\ ~FallbackTurn =>
            /\ resp.botState = "MOREDATA"
            /\ result.fulfillmentText # NoText =>
                    resp.replymessages = result.fulfillmentText
        /\ (FallbackTurn /\ CountBelowTwo) =>
            /\ resp.botState = "MOREDATA"
            /\ resp.replymessages = RephraseReply
        /\ (FallbackTurn /\ CountTwoOrMore) =>
            /\ resp.botState = "COMPLETE"
            /\ resp.replymessages = TerminalReply
        /\ resp.botState = "COMPLETE" => (FallbackTurn /\ CountTwoOrMore)

\* A fallback turn that read the count 2 from its inbound contexts has
\* answered COMPLETE with the terminal text.
C4_Witness ==
    /\ Succeeded
    /\ FallbackTurn
    /\ fallbackCount = Num(2)
    /\ resp.botState = "COMPLETE"
    /\ resp.replymessages = TerminalReply

(* C5 *)

\* C5: a fallback turn whose inbound count c is below 2 (0 when there is no
\* inbound counter) returns exactly one fallback-counter context, with
\* lifespanCount 1 and the count c + 1.
C5_NonTerminalFallback ==
    (Succeeded /\ FallbackTurn /\ CountBelowTwo) =>
        /\ Cardinality(CounterPositions(resp.botContexts)) = 1
        /\ CarriesCount(resp.botContexts, fallbackCount.n + 1, 1)

(* C6 *)

\* C6 as stated: a fallback turn whose inbound count is 2 or more returns a
\* fallback-counter context with lifespanCount 0.
C6_TerminalExpiry ==
    (Succeeded /\ FallbackTurn /\ CountTwoOrMore) =>
        \E i \in CounterPositions(resp.botContexts) :
            resp.botContexts[i].lifespanCount = 0

\* C6 amended: a fallback turn whose inbound count is 2 or more returns
\* exactly the backend's output contexts: the handler adds no
\* fallback-counter context, with lifespanCount 0 or otherwise.
C6_TerminalTurnAddsNothing ==
    (Succeeded /\ FallbackTurn /\ CountTwoOrMore) =>
        resp.botContexts = result.outputContexts

\* A terminal fallback turn has answered, the inbound set held the counter
\* and the backend returned no contexts.
C6_Witness ==
    /\ Succeeded
    /\ FallbackTurn
    /\ CountTwoOrMore
    /\ CounterPositions(req.botContexts) # {}
    /\ result.outputContexts = <<>>
    /\ resp.botState = "COMPLETE"

(* C7 *)

\* The request passed the method and password checks and its body is JSON.
Admitted ==
    /\ req.method = "POST"
    /\ req.authorized
    /\ req.body \in {"json", "noinput"}

\* inputMessage.text is missing (with or without its inputMessage) or empty.
UtteranceMissing ==
    \/ req.body = "noinput"
    \/ req.body = "json" /\ req.text \in {NoText, ""}

Count(op) == Cardinality({i \in 1..Len(steps) : steps[i] = op})

\* C7: a request whose inputMessage.text is missing or empty is answered with
\* a 4xx status, and its invocation signs nothing, exchanges no token and
\* calls no backend.
C7_ValidationBeforeNetwork ==
    (pc = "done" /\ Admitted /\ UtteranceMissing) =>
        /\ resp.status \in 400..499
        /\ steps = <<>>

(* C8 *)

\* C8: when the credential bundle is unset or is no JSON, a request that
\* passed validation is answered with a 5xx status, and its invocation signs
\* nothing, exchanges no token and calls no backend.
C8_MalformedCredentials ==
    (Admitted /\ ~UtteranceMissing
        /\ env.credentials \in {"missing", "malformed"}) =>
        /\ steps = <<>>
        /\ pc = "done" => resp.status \in 500..599

\* A valid request has been answered 500 under a bundle that is no JSON.
C8_Witness ==
    /\ pc = "done"
    /\ Admitted
    /\ ~UtteranceMissing
    /\ env.credentials = "malformed"
    /\ resp.status = 500
    /\ steps = <<>>

(* C9 *)

\* C9: an invocation starts each of signing, token exchange and backend call
\* at most once; when the token endpoint answers with an error field or is
\* unreachable, no backend call is made; and when the token exchange or the
\* backend call fails (any status outside 2xx included) the invocation has
\* ended with a 5xx response.
C9_FailFast ==
    /\ \A op \in {"sign", "token", "backend"} : Count(op) <= 1
    /\ replies.token \in {"error", "network"} =>
        /\ Count("backend") = 0
        /\ pc = "done"
        /\ resp.status \in 500..599
    /\ replies.backend \in BackendFailures =>
        /\ pc = "done"
        /\ resp.status \in 500..599

\* The token endpoint answered with an error field and the invocation ended
\* 500 after one signing and one token exchange.
C9_Witness ==
    /\ pc = "done"
    /\ replies.token = "error"
    /\ steps = <<"sign", "token">>
    /\ resp.status = 500

(* C10 *)

\* C10: an invocation ends with either a 200 response that carries all of
\* replymessages, intent, confidence, botContexts and botState, or an error
\* response that carries none of them.
C10_NoPartialSuccess ==
    pc = "done" =>
        \/ resp.status = 200 /\ resp.keys = ResultKeys
        \/ resp.status \in 400..599 /\ resp.keys = {}

(* C11 *)

\* The count the handler finds in the inbound contexts of invocation i.
OwnCount(i) ==
    ReadFallbackCount(inboundContexts(inv[i].req), inv[i].req.sessionId)

\* C11: with any number of invocations in parallel and their steps
\* interleaved arbitrarily, the response of each invocation is the one the
\* handler computes from its own request, the configuration and the replies
\* it received, and the fallback count it works with is the one of its own
\* inbound contexts, whatever the other invocations read or wrote.
C11_StatelessUnderConcurrency ==
    \A i \in Invocations :
        /\ inv[i].pc = "done" =>
                inv[i].resp = Handler(env, inv[i].req, inv[i].replies.token,
                                      inv[i].replies.backend, inv[i].result)
        /\ Len(inv[i].steps) = 3 => inv[i].fallbackCount = OwnCount(i)

\* A fallback turn answered 200 after another invocation of the same
\* session, with another inbound count, read its counter while this one
\* awaited Dialogflow.
C11_Witness ==
    \E i, j \in Invocations :
        /\ i # j
        /\ inv[i].pc = "done"
        /\ inv[i].resp.status = 200
        /\ inv[i].result.intent = FallbackIntent
        /\ inv[i].overtaken
        /\ Len(inv[j].steps) = 3
        /\ inv[j].req.sessionId = inv[i].req.sessionId
        /\ OwnCount(j) # OwnCount(i)

(* C12 *)

\* C12: an invocation that has issued its backend call sent with it the
\* access token that its own token exchange returned for the assertion it
\* signed itself, and no two invocations, overlapping or one after the
\* other, hold the same assertion or send the same token.
C12_TokenPerTurn ==
    \A i \in Invocations :
        /\ inv[i].jwt \in {0, i}
        /\ Len(inv[i].steps) = 3 => inv[i].bearer = AccessToken(i, i)
        /\ \A j \in Invocations \ {i} :
                inv[i].bearer # NoToken => inv[i].bearer # inv[j].bearer

\* Two invocations have both been answered 200, each after its own signing,
\* token exchange and backend call.
C12_Witness ==
    \E i, j \in Invocations :
        /\ i # j
        /\ inv[i].pc = "done" /\ inv[i].resp.status = 200
        /\ inv[j].pc = "done" /\ inv[j].resp.status = 200
        /\ inv[i].steps = <<"sign", "token", "backend">>
        /\ inv[j].steps = <<"sign", "token", "backend">>
        /\ inv[i].bearer # NoToken
        /\ inv[j].bearer # NoToken

(* C13 *)

\* C13: a request whose method is not POST is answered 405, whatever its
\* headers; a POST whose username/password headers do not match is answered
\* 401; in both cases the invocation never calls request.json() and starts
\* no signing, token exchange or backend call.
C13_BoundaryGates ==
    /\ req.method = "GET" =>
        /\ pc \in {"gate", "done"}
        /\ steps = <<>>
        /\ pc = "done" => resp.status = 405
    /\ (req.method = "POST" /\ ~req.authorized) =>
        /\ pc \in {"gate", "done"}
        /\ steps = <<>>
        /\ pc = "done" => resp.status = 401

\* A GET with the wrong password and a body that is no JSON has been
\* answered 405.
C13_Witness ==
    /\ pc = "done"
    /\ req.method = "GET"
    /\ ~req.authorized
    /\ req.body = "notjson"
    /\ resp.status = 405
    /\ steps = <<>>

(* C14 *)

\* The request passed the gates with a JSON body that carries an initiation
\* event and an inputMessage whose text is missing or empty.
EventWithoutUtterance ==
    /\ req.method = "POST"
    /\ req.authorized
    /\ req.body = "json"
    /\ req.text \in {NoText, ""}
    /\ req.event

\* C14 as stated: a request with a missing or empty utterance that carries
\* an initiation event is not answered with a validation error, and where
\* the credentials are usable its turn mints a token.
C14_InitiationEvent ==
    (pc = "done" /\ EventWithoutUtterance) =>
        /\ resp.status \notin 400..499
        /\ env.credentials = "ok" => Count("token") = 1

\* C14 amended: a request with a missing or empty utterance is answered 400
\* even when it carries an initiation event, and its invocation signs
\* nothing, exchanges no token and calls no backend.
C14_EventRejected ==
    EventWithoutUtterance =>
        /\ steps = <<>>
        /\ pc \in {"gate", "parse", "done"}
        /\ pc = "done" => resp.status = 400

\* A request with an initiation event and no utterance has been answered
\* 400 under usable credentials.
C14_Witness ==
    /\ pc = "done"
    /\ EventWithoutUtterance
    /\ req.text = NoText
    /\ env.credentials = "ok"
    /\ resp.status = 400
    /\ steps = <<>>

(* C15 *)

\* C15: on a 200 response each absent field of the backend result has its
\* default, whatever the other fields are: no fulfillment text gives the
\* fixed reply (on a turn that is no fallback turn, where the reply is the
\* backend's), no intent gives "UNKNOWN", no confidence gives 0, no output
\* contexts give the empty list (on a turn that pushes no counter); and a
\* result without intent is answered MOREDATA with a reply.
C15_ResultDefaults ==
    Succeeded =>
        /\ (result.fulfillmentText = NoText /\ ~FallbackTurn) =>
                resp.replymessages = DefaultReply
        /\ result.intent = "<none>" =>
            /\ resp.intent = "UNKNOWN"
            /\ resp.botState = "MOREDATA"
            /\ resp.replymessages \in {DefaultReply, result.fulfillmentText}
            /\ "replymessages" \in resp.keys
        /\ result.intentDetectionConfidence = NoText => resp.confidence = "0"
        /\ (~result.hasOutputContexts /\ ~(FallbackTurn /\ ~CountTwoOrMore)) =>
                resp.botContexts = <<>>

\* A result with none of the four fields has been answered 200 with the
\* four defaults.
C15_Witness ==
    /\ Succeeded
    /\ result.fulfillmentText = NoText
    /\ result.intent = "<none>"
    /\ result.intentDetectionConfidence = NoText
    /\ ~result.hasOutputContexts
    /\ resp.replymessages = DefaultReply
    /\ resp.intent = "UNKNOWN"
    /\ resp.confidence = "0"
    /\ resp.botContexts = <<>>
    /\ resp.botState = "MOREDATA"

(* C16 *)

\* C16: on a turn that did not match the fallback intent, the returned
\* botContexts hold no fallback-counter context with lifespanCount > 0,
\* whatever the backend returned, and when the inbound contexts held a
\* fallback-counter context they hold one with lifespanCount 0.
C16_NonFallbackOutbound ==
    (Succeeded /\ ~FallbackTurn) =>
        /\ \A i \in CounterPositions(resp.botContexts) :
                resp.botContexts[i].lifespanCount <= 0
        /\ CounterPositions(req.botContexts) # {} =>
                \E i \in CounterPositions(resp.botContexts) :
                    resp.botContexts[i].lifespanCount = 0

(* C17 *)

\* The invocation has read its counter (lines 143-149).
CounterRead == Len(steps) = 3

\* The inbound positions whose name is the full path built from the
\* credentials and botSessionId.
ExactPositions ==
    {i \in 1..Len(req.botContexts) :
        /\ req.botContexts[i].name.label = FallbackLabel
        /\ req.botContexts[i].name.session = req.sessionId}

\* C17 as stated: the first inbound context whose name ends in the
\* fallback-counter label supplies the count the handler reads, whatever
\* the session in its name.
C17_LabelSuffixLookup ==
    (CounterRead /\ CounterPositions(req.botContexts) # {}) =>
        LET i == First(CounterPositions(req.botContexts))
        IN  Truthy(req.botContexts[i].fallback_count) =>
                fallbackCount = req.botContexts[i].fallback_count

\* C17 amended: the count is supplied by the first inbound context whose
\* whole name is the path built from the credentials and botSessionId; when
\* the inbound set has none, a context that ends in the label under another
\* session included, the handler reads 0.
C17_ExactNameLookup ==
    CounterRead =>
        /\ ExactPositions = {} => fallbackCount = Num(0)
        /\ ExactPositions # {} =>
            LET i == First(ExactPositions)
            IN  fallbackCount =
                    IF Truthy(req.botContexts[i].fallback_count)
                    THEN req.botContexts[i].fallback_count
                    ELSE Num(0)

\* A fallback turn of session s1 whose inbound set holds the counter of
\* session s2 with count 2 has read 0 and answered MOREDATA.
C17_Witness ==
    /\ Succeeded
    /\ FallbackTurn
    /\ req.sessionId = "s1"
    /\ req.botContexts =
            <<Context(ContextName("s2", FallbackLabel), 1, Num(2))>>
    /\ fallbackCount = Num(0)
    /\ resp.botState = "MOREDATA"

(* C18 *)

\* The inbound counter the handler finds has no count, or a count that is
\* no non-negative integer.
CountUnusable ==
    /\ ExactPositions # {}
    /\ req.botContexts[First(ExactPositions)].fallback_count.kind
            \in {"absent", "junk", "null"}

\* C18: when the inbound counter has no count or a count that is no
\* non-negative integer, the turn is answered as with the count 0 (200, and
\* on a fallback turn the rephrase reply, MOREDATA and the count 1), and the
\* count of the counter context the handler pushes on any non-terminal
\* fallback turn is a non-negative integer.
C18_CountDefaulting ==
    /\ (pc = "done" /\ replies.backend = "ok" /\ CountUnusable) =>
        /\ resp.status = 200
        /\ FallbackTurn =>
            /\ resp.replymessages = RephraseReply
            /\ resp.botState = "MOREDATA"
            /\ CarriesCount(resp.botContexts, 1, 1)
    /\ (Succeeded /\ FallbackTurn /\ resp.botState = "MOREDATA") =>
        LET pushed == resp.botContexts[Len(resp.botContexts)]
        IN  /\ pushed.fallback_count.kind = "num"
            /\ pushed.fallback_count.n >= 0

(* C19 *)

StepOrder == <<"sign", "token", "backend">>

\* C19: an invocation validates the utterance, then loads the credentials,
\* then signs, exchanges the token and calls the backend, in that order and
\* each at most once, and decides and answers after the backend has
\* answered: an empty utterance is answered 400 whatever the credentials,
\* unusable credentials start no outbound operation, the backend call
\* follows a successful token exchange and exactly one signing, no
\* invocation makes more than two network calls, and a 200 response follows
\* all three operations.
C19_StepOrder ==
    /\ Len(steps) <= 3
    /\ steps = SubSeq(StepOrder, 1, Len(steps))
    /\ (pc = "done" /\ Admitted /\ req.body = "json" /\ UtteranceMissing) =>
            resp.status = 400
    /\ steps # <<>> =>
        /\ Admitted /\ ~UtteranceMissing
        /\ env.credentials \in {"badkey", "ok"}
    /\ Count("backend") > 0 =>
        /\ replies.token = "ok"
        /\ Count("sign") = 1
    /\ Count("token") + Count("backend") <= 2
    /\ pc \in {"gate", "parse", "sign", "token", "detect"} =>
            resp = NoResponse
    /\ resp.status = 200 =>
        /\ steps = StepOrder
        /\ replies = [token |-> "ok", backend |-> "ok"]

\* A turn has been answered 200 after one signing, one token exchange and
\* one backend call, in that order.
C19_Witness ==
    /\ Succeeded
    /\ steps = StepOrder
    /\ replies = [token |-> "ok", backend |-> "ok"]
    /\ Count("sign") = 1
    /\ Count("token") + Count("backend") = 2

(* C20 *)

\* C20: the contexts of the detectIntent request are the inbound
\* botContexts, in order and unchanged, the fallback-counter context
\* included, and the empty list when the body has no botContexts; the
\* language code sent is the request's, or en-US when it has none; the
\* text sent is the utterance.
C20_ContextPassThrough ==
    CounterRead =>
        /\ req.hasBotContexts => dialogflowRequest.contexts = req.botContexts
        /\ ~req.hasBotContexts => dialogflowRequest.contexts = <<>>
        /\ req.languageCode # NoText =>
                dialogflowRequest.languageCode = req.languageCode
        /\ req.languageCode = NoText =>
                dialogflowRequest.languageCode = "en-US"
        /\ dialogflowRequest.text = req.text

\* A request with languageCode fr-FR and an inbound fallback-counter context
\* has been sent on to Dialogflow with both.
C20_Witness ==
    /\ CounterRead
    /\ req.languageCode = "fr-FR"
    /\ CounterPositions(req.botContexts) # {}
    /\ dialogflowRequest.languageCode = "fr-FR"
    /\ dialogflowRequest.contexts = req.botContexts

(* C21 *)

\* The inbound positions whose lifespanCount is greater than 0.
ActivePositions ==
    {i \in 1..Len(req.botContexts) : req.botContexts[i].lifespanCount > 0}

\* C21: on a fallback turn whose inbound count is not 2 or more, the
\* returned botContexts are the backend's output contexts in their order,
\* then a copy of the first inbound context with lifespanCount > 0, its
\* lifespanCount set to 1, when there is one, then a fallback-counter
\* context of the current session with lifespanCount 1; on every other 200
\* response they are exactly the backend's output contexts.
C21_PreviousContextReapplied ==
    Succeeded =>
        LET out == resp.botContexts
            n == Len(result.outputContexts)
        IN  IF FallbackTurn /\ ~CountTwoOrMore
            THEN /\ Len(out) = n + (IF ActivePositions = {} THEN 1 ELSE 2)
                 /\ SubSeq(out, 1, n) = result.outputContexts
                 /\ ActivePositions # {} =>
                        out[n + 1] =
                            [req.botContexts[First(ActivePositions)]
                                EXCEPT !.lifespanCount = 1]
                 /\ out[Len(out)].name =
                        [session |-> req.sessionId, label |-> FallbackLabel]
                 /\ out[Len(out)].lifespanCount = 1
            ELSE out = result.outputContexts

\* A non-terminal fallback turn has returned the backend's context, then
\* the copy of an inbound context that had lifespanCount 2, then the counter.
C21_Witness ==
    /\ Succeeded
    /\ FallbackTurn
    /\ req.botContexts = <<Context(ContextName("s1", OtherLabel), 2, Absent)>>
    /\ Len(result.outputContexts) = 1
    /\ Len(resp.botContexts) = 3
    /\ resp.botContexts[2] = Context(ContextName("s1", OtherLabel), 1, Absent)
    /\ resp.botContexts[3].name.label = FallbackLabel

(* C22 *)

\* Every inbound fallback-counter context has no count or a non-negative
\* integer as its count.
InboundCountsUsable ==
    \A i \in CounterPositions(req.botContexts) :
        \/ req.botContexts[i].fallback_count = Absent
        \/ /\ req.botContexts[i].fallback_count.kind = "num"
           /\ req.botContexts[i].fallback_count.n >= 0

\* The positions of the returned botContexts that the handler appended
\* after the backend's output contexts.
AppendedPositions ==
    {i \in 1..Len(resp.botContexts) : i > Len(result.outputContexts)}

\* C22: when every inbound fallback-counter count is absent or a
\* non-negative integer, every fallback-counter context that the handler
\* appended to the returned botContexts has lifespanCount 1 and the count 1
\* or 2.
C22_BoundedEmittedCounter ==
    (Succeeded /\ InboundCountsUsable) =>
        \A i \in AppendedPositions \cap CounterPositions(resp.botContexts) :
            /\ resp.botContexts[i].lifespanCount = 1
            /\ resp.botContexts[i].fallback_count \in {Num(1), Num(2)}

====
